---- MODULE Spec2Model ----
(***************************************************************************)
(* A model of the medicine information assistant: the record store         *)
(* (src/src/utils.py), the result normalizer (src/src/agent_runner.py),    *)
(* the query relay (src/mcp_server.py, run_mcp_query in src/app.py) and    *)
(* the handlers of the presentation layer (src/app.py).                    *)
(***************************************************************************)
EXTENDS Integers, Sequences, FiniteSets, TLC

(***************************************************************************)
(* Bounds of the model.                                                    *)
(***************************************************************************)
\* longest text, counted in tokens
MaxTextLen == 2
\* most rows the medicines table and the insights table hold
MaxRows == 2
\* most actions of the user in one session
MaxClicks == 2

(***************************************************************************)
(* Python / JSON values.  Every value is a record of the same shape so     *)
(* that any two values can be compared: ty is the type, s the content of   *)
(* a string, items the elements of a list, d the mapping of a dict (a      *)
(* function from its keys to values).                                      *)
(***************************************************************************)
None == [ty |-> "null", s |-> "", items |-> <<>>, d |-> <<>>]
JStr(str) == [ty |-> "str", s |-> str, items |-> <<>>, d |-> <<>>]
JList(elems) == [ty |-> "list", s |-> "", items |-> elems, d |-> <<>>]
JDict(map) == [ty |-> "dict", s |-> "", items |-> <<>>, d |-> map]

\* Python truthiness of a decoded JSON value (`if data:`, `if result:`)
Truthy(v) ==
    CASE v.ty = "null" -> FALSE
      [] v.ty = "str" -> v.s # ""
      [] v.ty = "list" -> v.items # <<>>
      [] v.ty = "dict" -> DOMAIN v.d # {}

\* the empty mapping
EmptyMap == [x \in {} |-> None]
\* dict[k] = v
Put(map, k, v) == [x \in DOMAIN map \cup {k} |-> IF x = k THEN v ELSE map[x]]
\* del dict[k]
Del(map, k) == [x \in DOMAIN map \ {k} |-> map[x]]

\* sep.join(elems) for a list of strings
RECURSIVE Join(_, _)
Join(elems, sep) ==
    IF elems = <<>> THEN ""
    ELSE IF Len(elems) = 1 THEN elems[1].s
    ELSE elems[1].s \o sep \o Join(Tail(elems), sep)

\* str.join raises TypeError unless every element is a string
AllStr(elems) == \A i \in 1..Len(elems) : elems[i].ty = "str"

(***************************************************************************)
(* Texts.  A text is a sequence of tokens: "A" and "B" each stand for the  *)
(* text of one complete JSON object, "{" and "}" for a single brace, "x"   *)
(* for brace-free text that is not JSON, "n" for the JSON literal null.    *)
(* "L" stands for the text [{}, {}], a JSON array of two objects, and      *)
(* "L{", "}L", "{L}" for what is left of it from its first opening brace   *)
(* on, up to its last closing brace, and between the two.                  *)
(***************************************************************************)
Tokens == {"A", "B", "{", "}", "x", "n"}
Opens == {"A", "B", "{", "L"}
Closes == {"A", "B", "}", "L"}

Texts == UNION {[1..n -> Tokens] : n \in 0..MaxTextLen}

\* the object token "B" always stands for this document
DocB == JDict([name |-> JStr("other")])
\* the text [{}, {}] and the document it stands for
ArrayText == <<"L">>
DocL == JList(<<JDict(EmptyMap), JDict(EmptyMap)>>)

\* re.search(r'\{.*\}', text, re.DOTALL): greedy, from the first opening
\* brace to the last closing brace; <<>> stands for no match
HasMatch(text) ==
    \E i \in 1..Len(text) : \E j \in i..Len(text) :
        text[i] \in Opens /\ text[j] \in Closes
RegexSearch(text) ==
    LET i == CHOOSE a \in 1..Len(text) :
                 text[a] \in Opens /\ \A b \in 1..(a - 1) : text[b] \notin Opens
        j == CHOOSE a \in 1..Len(text) :
                 text[a] \in Closes /\ \A b \in (a + 1)..Len(text) : text[b] \notin Closes
        sub == SubSeq(text, i, j)
    IN [k \in 1..Len(sub) |->
           IF sub[k] # "L" THEN sub[k]
           ELSE IF k = 1 /\ k = Len(sub) THEN "{L}"
           ELSE IF k = 1 THEN "L{"
           ELSE IF k = Len(sub) THEN "}L"
           ELSE "L"]

\* json.loads: ok is FALSE for JSONDecodeError
JsonLoads(text, da) ==
    CASE text = <<"A">> -> [ok |-> TRUE, val |-> da]
      [] text = <<"B">> -> [ok |-> TRUE, val |-> DocB]
      [] text = <<"{", "}">> -> [ok |-> TRUE, val |-> JDict(EmptyMap)]
      [] text = <<"n">> -> [ok |-> TRUE, val |-> None]
      [] text = ArrayText -> [ok |-> TRUE, val |-> DocL]
      [] OTHER -> [ok |-> FALSE, val |-> None]

(***************************************************************************)
(* The agent run result, as _process_result probes it.                     *)
(***************************************************************************)
\* what final_result() yields: None, a text, or a value that is no text
Finals ==
    {[accessor |-> FALSE, kind |-> "none", text |-> <<>>]}
    \cup {[accessor |-> TRUE, kind |-> k, text |-> <<>>] : k \in {"none", "nonstr"}}
    \cup {[accessor |-> TRUE, kind |-> "text", text |-> t] : t \in Texts}

\* a step: action is "none" (no action mapping, or one without "done"),
\* "notdict" (done is no mapping) or "done" (done is a mapping with
\* success and, when hasText, text)
StepSet ==
    {[action |-> a, success |-> FALSE, hasText |-> FALSE, text |-> <<>>] :
        a \in {"none", "notdict"}}
    \cup {[action |-> "done", success |-> s, hasText |-> FALSE, text |-> <<>>] :
        s \in BOOLEAN}
    \cup {[action |-> "done", success |-> FALSE, hasText |-> TRUE, text |-> <<"A">>]}
    \cup {[action |-> "done", success |-> TRUE, hasText |-> TRUE, text |-> t] :
        t \in Texts \cup {ArrayText}}

\* Qualifies without the test of success
QualifiesAnyDone(step) == step.action = "done" /\ step.hasText

\* the step passes the tests of lines 67 and 69
Qualifies(step) == step.action = "done" /\ step.success /\ step.hasText

\* FinalData without the handler of JSONDecodeError of lines 61-62
FinalDataRaises(final, da) ==
    IF ~final.accessor \/ final.kind = "none"
    THEN [raised |-> FALSE, data |-> None]
    ELSE IF final.kind = "nonstr"
    THEN [raised |-> TRUE, data |-> None]
    ELSE IF final.text = <<>> \/ ~HasMatch(final.text)
    THEN [raised |-> FALSE, data |-> None]
    ELSE LET r == JsonLoads(RegexSearch(final.text), da)
         IN [raised |-> ~r.ok, data |-> r.val]

\* lines 51-62: the data the final text yields; raised is TRUE when the
\* try block is left by an exception other than JSONDecodeError
FinalData(final, da) ==
    IF ~final.accessor \/ final.kind = "none"
    THEN [raised |-> FALSE, data |-> None]
    \* re.search on a value that is no text raises TypeError
    ELSE IF final.kind = "nonstr"
    THEN [raised |-> TRUE, data |-> None]
    \* the empty text is falsy
    ELSE IF final.text = <<>> \/ ~HasMatch(final.text)
    THEN [raised |-> FALSE, data |-> None]
    ELSE LET r == JsonLoads(RegexSearch(final.text), da)
         IN [raised |-> FALSE, data |-> IF r.ok THEN r.val ELSE None]

\* StepOutcome where the full text is tried after the match has failed
StepOutcomeBoth(step, da) ==
    IF ~Qualifies(step) THEN [kind |-> "skip", data |-> None]
    ELSE LET m == IF HasMatch(step.text)
                  THEN JsonLoads(RegexSearch(step.text), da)
                  ELSE [ok |-> FALSE, val |-> None]
             r == IF m.ok THEN m ELSE JsonLoads(step.text, da)
         IN IF r.ok THEN [kind |-> "break", data |-> r.val]
            ELSE [kind |-> "continue", data |-> None]

\* lines 67-83, one iteration of the step loop: "skip" (the step does not
\* qualify), "continue" (JSONDecodeError) or "break" (data assigned)
StepOutcome(step, da) ==
    IF ~Qualifies(step) THEN [kind |-> "skip", data |-> None]
    ELSE LET r == IF HasMatch(step.text)
                  THEN JsonLoads(RegexSearch(step.text), da)
                  ELSE JsonLoads(step.text, da)
         IN IF r.ok THEN [kind |-> "break", data |-> r.val]
            ELSE [kind |-> "continue", data |-> None]

\* lines 88-90
NormBrand(map) ==
    IF "brand_names" \in DOMAIN map /\ map["brand_names"].ty = "list"
    THEN Del(Put(map, "brand", JStr(Join(map["brand_names"].items, ", "))),
             "brand_names")
    ELSE map
\* lines 92-94
NormDosage(map) ==
    IF "dosage_forms" \in DOMAIN map /\ map["dosage_forms"].ty = "list"
    THEN Del(Put(map, "dosage", JStr(Join(map["dosage_forms"].items, "; "))),
             "dosage_forms")
    ELSE map
\* lines 96-98
NormCategory(map) ==
    IF "drug_class" \in DOMAIN map
    THEN Del(Put(map, "category", map["drug_class"]), "drug_class")
    ELSE map
\* lines 100-104
NormName(map) ==
    IF "generic_name" \in DOMAIN map
    THEN Del(IF "name" \notin DOMAIN map
             THEN Put(map, "name", map["generic_name"])
             ELSE map, "generic_name")
    ELSE map

\* a join of lines 89 or 93 raises TypeError
JoinRaises(map) ==
    \E k \in {"brand_names", "dosage_forms"} :
        k \in DOMAIN map /\ map[k].ty = "list" /\ ~AllStr(map[k].items)

\* lines 85-112: what _process_result returns for the data recovered
Normalize(data) ==
    IF ~Truthy(data) THEN None
    ELSE CASE data.ty = "dict" ->
                IF JoinRaises(data.d) THEN None
                ELSE JDict(NormName(NormCategory(NormDosage(NormBrand(data.d)))))
           \* the membership tests are all false on these
           [] OTHER -> data

\* lines 64-83 on a whole list of steps
RECURSIVE ScanSteps(_, _)
ScanSteps(steps, da) ==
    IF steps = <<>> THEN None
    ELSE LET o == StepOutcome(Head(steps), da)
         IN IF o.kind = "break" THEN o.data ELSE ScanSteps(Tail(steps), da)

\* _process_result on a run result [final, iterable, steps]
ProcessResult(result, da) ==
    LET f == FinalData(result.final, da)
    IN IF f.raised THEN None
       ELSE IF f.data = None /\ result.iterable
       THEN Normalize(ScanSteps(result.steps, da))
       ELSE Normalize(f.data)

(***************************************************************************)
(* The JSON objects an agent may produce (the document of token "A").      *)
(***************************************************************************)
Optional(k, vals) == {EmptyMap} \cup {[x \in {k} |-> v] : v \in vals}
Merge(f, g) == [x \in DOMAIN f \cup DOMAIN g |-> IF x \in DOMAIN f THEN f[x] ELSE g[x]]

BrandNamesVals ==
    {JList(<<>>), JList(<<JStr("Advil")>>), JList(<<JStr("Advil"), JStr("Motrin")>>),
     JList(<<JStr("Advil"), None>>), JStr("N/A")}
BrandObjects ==
    {Merge(a, b) : a \in Optional("brand_names", BrandNamesVals),
                   b \in Optional("brand", {JStr("Nurofen")})}
NameObjects ==
    {Merge(a, b) :
        a \in Optional("generic_name", {JStr("ibuprofen")}),
        b \in {EmptyMap,
               [name |-> JStr("Ibuprofen")],
               [drug_class |-> JStr("NSAID"),
                dosage_forms |-> JList(<<JStr("tablet"), JStr("gel")>>)]}}
Objects == {JDict(m) : m \in BrandObjects \cup NameObjects}

(***************************************************************************)
(* State.                                                                  *)
(***************************************************************************)
VARIABLES
    \* one call of _process_result: "idle", "scan" (in the step loop), "done"
    npc,
    \* the call's input: the document of token "A", what final_result()
    \* yields, whether the result is iterable
    docA, finalIn, iterable,
    \* the local `data`, whether the step loop was entered, whether a step
    \* that qualifies was met
    data, consulted, qualSeen,
    \* what the call returned, and whether it raised instead
    out, outRaised

normVars == <<npc, docA, finalIn, iterable, data, consulted, qualSeen,
              out, outRaised>>

NoFinal == [accessor |-> FALSE, kind |-> "none", text |-> <<>>]

NormInit ==
    /\ npc = "idle"
    /\ docA = None
    /\ finalIn = NoFinal
    /\ iterable = FALSE
    /\ data = None
    /\ consulted = FALSE
    /\ qualSeen = FALSE
    /\ out = None
    /\ outRaised = FALSE

(***************************************************************************)
(* SQL texts.  A text is a sequence of characters, so that upper-casing    *)
(* and substring tests are computed as Python computes them.               *)
(***************************************************************************)
\* SELECT * FROM medicines
SqlSelect ==
    <<"S", "E", "L", "E", "C", "T", " ", "*", " ", "F", "R", "O", "M", " ",
      "m", "e", "d", "i", "c", "i", "n", "e", "s">>
\* update medicines set price=1
SqlUpdate ==
    <<"u", "p", "d", "a", "t", "e", " ", "m", "e", "d", "i", "c", "i", "n",
      "e", "s", " ", "s", "e", "t", " ", "p", "r", "i", "c", "e", "=", "1">>
\* INSERT INTO log VALUES ('DROP the mic')
SqlInsertLog ==
    <<"I", "N", "S", "E", "R", "T", " ", "I", "N", "T", "O", " ", "l", "o",
      "g", " ", "V", "A", "L", "U", "E", "S", " ", "(", "'", "D", "R", "O",
      "P", " ", "t", "h", "e", " ", "m", "i", "c", "'", ")">>
\* DELETE FROM medicines
SqlDelete ==
    <<"D", "E", "L", "E", "T", "E", " ", "F", "R", "O", "M", " ", "m", "e",
      "d", "i", "c", "i", "n", "e", "s">>
\* DROP TABLE medicines
SqlDrop ==
    <<"D", "R", "O", "P", " ", "T", "A", "B", "L", "E", " ", "m", "e", "d",
      "i", "c", "i", "n", "e", "s">>
\* SELECT date_created FROM insights
SqlSelectCreated ==
    <<"S", "E", "L", "E", "C", "T", " ", "d", "a", "t", "e", "_", "c", "r",
      "e", "a", "t", "e", "d", " ", "F", "R", "O", "M", " ", "i", "n", "s",
      "i", "g", "h", "t", "s">>
\* REPLACE INTO medicines VALUES (1,'a','b',1,'c','d',1,'e','f','g','h')
SqlReplace ==
    <<"R", "E", "P", "L", "A", "C", "E", " ", "I", "N", "T", "O", " ", "m",
      "e", "d", "i", "c", "i", "n", "e", "s", " ", "V", "A", "L", "U", "E",
      "S", " ", "(", "1", ",", "'", "a", "'", ",", "'", "b", "'", ",", "1",
      ",", "'", "c", "'", ",", "'", "d", "'", ",", "1", ",", "'", "e", "'",
      ",", "'", "f", "'", ",", "'", "g", "'", ",", "'", "h", "'", ")">>
\* UPDATE medicines SET brand=NULL
SqlUpdateNull ==
    <<"U", "P", "D", "A", "T", "E", " ", "m", "e", "d", "i", "c", "i", "n",
      "e", "s", " ", "S", "E", "T", " ", "b", "r", "a", "n", "d", "=", "N",
      "U", "L", "L">>

Prompts ==
    {SqlSelect,
     SqlUpdate,
     SqlInsertLog,
     SqlDelete,
     SqlDrop,
     SqlSelectCreated,
     SqlReplace,
     SqlUpdateNull}

LowerCase == <<"a", "b", "c", "d", "e", "f", "g", "h", "i", "j", "k", "l", "m",
               "n", "o", "p", "q", "r", "s", "t", "u", "v", "w", "x", "y", "z">>
UpperCase == <<"A", "B", "C", "D", "E", "F", "G", "H", "I", "J", "K", "L", "M",
               "N", "O", "P", "Q", "R", "S", "T", "U", "V", "W", "X", "Y", "Z">>
\* str.upper()
UpperChar(c) ==
    IF \E i \in 1..Len(LowerCase) : LowerCase[i] = c
    THEN UpperCase[CHOOSE i \in 1..Len(LowerCase) : LowerCase[i] = c]
    ELSE c
\* Upper that leaves the text as it is
UpperNone(text) == text
Upper(text) == [i \in 1..Len(text) |-> UpperChar(text[i])]
\* word in text
Contains(text, word) ==
    \E i \in 0..(Len(text) - Len(word)) : SubSeq(text, i + 1, i + Len(word)) = word

\* src/app.py line 186
write_operations ==
    <<<<"I", "N", "S", "E", "R", "T">>,
      <<"U", "P", "D", "A", "T", "E">>,
      <<"D", "E", "L", "E", "T", "E">>,
      <<"C", "R", "E", "A", "T", "E">>,
      <<"A", "L", "T", "E", "R">>,
      <<"D", "R", "O", "P">>>>

(***************************************************************************)
(* The record store.  A table is the sequence of its rows in rowid order;  *)
(* a table that does not exist holds no rows.                              *)
(***************************************************************************)
Names == {"Aspirin", "Ibuprofen"}
Dates == {"2026-11-02"}

\* src/src/models.py: the valid Medicine records the store is tried with
Medicines ==
    [name : Names, brand : {"Bayer"}, price : {0, 5}, dosage : {"500mg"},
     form : {"tablet"}, otc : BOOLEAN, description : {"pain relief"},
     side_effects : {"nausea"}, category : {"NSAID"}, date_added : Dates]
\* the valid Medicine records the exports are tried with: a brand with an
\* apostrophe in it, a description with a line break in it
ExportMedicines ==
    [name : {"Aspirin"}, brand : {"Bayer", "Tylenol's"}, price : {5},
     dosage : {"500mg"}, form : {"tablet"}, otc : BOOLEAN,
     description : {"pain relief", "take one\ntake two"},
     side_effects : {"nausea"}, category : {"NSAID"}, date_added : Dates]
MedicineInsights ==
    [insight : {"prices rise"}, category : {"pricing"}, date_created : Dates]

\* SQL NULL in a column, Python None in a field; no text of the model equals it
Null == "<NULL>"
\* the NOT NULL constraints of lines 17-26 on the TEXT columns (the model
\* writes numbers only to the columns price and otc)
TextColumns ==
    {"name", "brand", "dosage", "form", "description", "side_effects",
     "category", "date_added"}
NotNull(row) == \A f \in TextColumns : row[f] # Null

\* the rowid SQLite gives a row inserted without one: one more than the
\* largest in the table
NextId(rows) ==
    IF rows = <<>> THEN 1
    ELSE 1 + CHOOSE m \in {rows[i].id : i \in 1..Len(rows)} :
                 \A i \in 1..Len(rows) : rows[i].id <= m

\* MedicineRow with the otc flag lost
MedicineRowOtcZero(m, id) ==
    [id |-> id, name |-> m.name, brand |-> m.brand, price |-> m.price,
     dosage |-> m.dosage, form |-> m.form, otc |-> 0,
     description |-> m.description, side_effects |-> m.side_effects,
     category |-> m.category, date_added |-> m.date_added]

\* add_medicine, lines 55-66: the parameters bound to the INSERT
MedicineRow(m, id) ==
    [id |-> id, name |-> m.name, brand |-> m.brand, price |-> m.price,
     dosage |-> m.dosage, form |-> m.form, otc |-> IF m.otc THEN 1 ELSE 0,
     description |-> m.description, side_effects |-> m.side_effects,
     category |-> m.category, date_added |-> m.date_added]

\* get_all_medicines, lines 85-96: a row mapped back to a Medicine
RowMedicine(row) ==
    [name |-> row.name, brand |-> row.brand, price |-> row.price,
     dosage |-> row.dosage, form |-> row.form, otc |-> (row.otc # 0),
     description |-> row.description, side_effects |-> row.side_effects,
     category |-> row.category, date_added |-> row.date_added]

\* get_all_medicines on a table that exists
GetAllMedicines(rows) == [i \in 1..Len(rows) |-> RowMedicine(rows[i])]

InsightRow(n, id) ==
    [id |-> id, insight |-> n.insight, category |-> n.category,
     date_created |-> n.date_created]

\* CREATE TABLE that starts the table afresh
CreateAlways(exists, rows) == <<>>

\* CREATE TABLE IF NOT EXISTS: an existing table keeps its rows
CreateIfNotExists(exists, rows) == IF exists THEN rows ELSE <<>>

\* the database file: the two tables
Database(mt, ms, it, is) ==
    [medTable |-> mt, medicines |-> ms, insTable |-> it, insights |-> is]

\* initialize_database
InitializeDatabase(db) ==
    Database(TRUE, CreateIfNotExists(db.medTable, db.medicines),
             TRUE, CreateIfNotExists(db.insTable, db.insights))

\* add_medicine: raises when the table does not exist, and when a NOT NULL
\* constraint fails
AddMedicine(db, m) ==
    IF db.medTable /\ NotNull(MedicineRow(m, NextId(db.medicines)))
    THEN [raised |-> FALSE,
          db |-> [db EXCEPT !.medicines =
                     Append(@, MedicineRow(m, NextId(db.medicines)))]]
    ELSE [raised |-> TRUE, db |-> db]

\* add_insight
AddInsight(db, n) ==
    IF db.insTable
    THEN [raised |-> FALSE,
          db |-> [db EXCEPT !.insights =
                     Append(@, InsightRow(n, NextId(db.insights)))]]
    ELSE [raised |-> TRUE, db |-> db]

(***************************************************************************)
(* SQLite on the SQL texts of the model.                                   *)
(***************************************************************************)
\* the row SqlReplace writes
ReplaceRow ==
    [id |-> 1, name |-> "a", brand |-> "b", price |-> 1, dosage |-> "c",
     form |-> "d", otc |-> 1, description |-> "e", side_effects |-> "f",
     category |-> "g", date_added |-> "h"]

\* data-definition statements run outside any transaction; sqlite3 opens
\* one before INSERT, UPDATE, DELETE and REPLACE
SqlKind(sql) ==
    CASE sql \in {SqlSelect, SqlSelectCreated} -> "select"
      [] sql = SqlDrop -> "ddl"
      [] OTHER -> "dml"

\* cursor.execute(sql): ok is FALSE when SQLite raises; db is the database
\* as the connection sees it afterwards; results is what fetchall returns
SqlExecute(sql, db) ==
    CASE sql = SqlSelect ->
            [ok |-> db.medTable, db |-> db, results |-> db.medicines]
      [] sql = SqlSelectCreated ->
            [ok |-> db.insTable, db |-> db, results |-> <<>>]
      [] sql = SqlUpdate ->
            [ok |-> db.medTable,
             db |-> [db EXCEPT !.medicines =
                        [i \in 1..Len(@) |-> [@[i] EXCEPT !.price = 1]]],
             results |-> <<>>]
      \* NOT NULL constraint failed: medicines.brand, unless no row is updated
      [] sql = SqlUpdateNull ->
            [ok |-> db.medTable /\ db.medicines = <<>>, db |-> db, results |-> <<>>]
      [] sql = SqlDelete ->
            [ok |-> db.medTable, db |-> [db EXCEPT !.medicines = <<>>],
             results |-> <<>>]
      [] sql = SqlDrop ->
            [ok |-> db.medTable,
             db |-> [db EXCEPT !.medTable = FALSE, !.medicines = <<>>],
             results |-> <<>>]
      [] sql = SqlReplace ->
            [ok |-> db.medTable,
             db |-> [db EXCEPT !.medicines =
                        IF @ = <<>> THEN <<ReplaceRow>>
                        ELSE [@ EXCEPT ![1] = ReplaceRow]],
             results |-> <<>>]
      \* SqlInsertLog: no such table: log
      [] OTHER -> [ok |-> FALSE, db |-> db, results |-> <<>>]

\* the JSON body of a response, and the object run_mcp_query returns: kind
\* is the key it holds ("results", "message", "detail" or "error"), s the
\* text under it, results the rows under "results"
Body(kind, str, results) == [kind |-> kind, s |-> str, results |-> results]

\* ReadQuery with a commit after the statement
ReadQueryCommits(sql, db) ==
    LET r == SqlExecute(sql, db)
    IN IF r.ok
       THEN [status |-> 200, results |-> r.results, db |-> r.db,
             body |-> Body("results", "", r.results)]
       ELSE [status |-> 400, results |-> <<>>, db |-> db,
             body |-> Body("detail", "SQL error", <<>>)]

\* mcp_server.read_query: no commit, so the connection's transaction is
\* rolled back when it closes
ReadQuery(sql, db) ==
    LET r == SqlExecute(sql, db)
    IN IF r.ok
       THEN [status |-> 200, results |-> r.results,
             db |-> IF SqlKind(sql) = "ddl" THEN r.db ELSE db,
             body |-> Body("results", "", r.results)]
       ELSE [status |-> 400, results |-> <<>>, db |-> db,
             body |-> Body("detail", "SQL error", <<>>)]

\* mcp_server.write_query
WriteQuery(sql, db) ==
    LET r == SqlExecute(sql, db)
    IN IF r.ok
       THEN [status |-> 200, results |-> <<>>, db |-> r.db,
             body |-> Body("message", "Query executed successfully.", <<>>)]
       ELSE [status |-> 400, results |-> <<>>, db |-> db,
             body |-> Body("detail", "SQL error", <<>>)]

(***************************************************************************)
(* Export utilities.  A file is the sequence of its lines, each a text.    *)
(***************************************************************************)
NoFile == <<>>
\* str(float) and str(bool), as pandas and the f-string write them
PriceText(p) == CASE p = 0 -> "0.0" [] p = 1 -> "1.0" [] p = 5 -> "5.0"
BoolText(b) == IF b THEN "True" ELSE "False"

\* the header pandas writes: the fields of Medicine in declaration order
CsvHeader ==
    <<"name", "brand", "price", "dosage", "form", "otc", "description",
      "side_effects", "category", "date_added">>
\* CsvLine with name and brand the other way round
CsvLineSwapped(m) ==
    <<m.brand, m.name, PriceText(m.price), m.dosage, m.form, BoolText(m.otc),
      m.description, m.side_effects, m.category, m.date_added>>
CsvLine(m) ==
    <<m.name, m.brand, PriceText(m.price), m.dosage, m.form, BoolText(m.otc),
      m.description, m.side_effects, m.category, m.date_added>>

\* a text with a line break in it, and str.splitlines on the texts of the
\* model
TwoLines == "take one\ntake two"
SplitLines(text) == IF text = TwoLines THEN <<"take one", "take two">> ELSE <<text>>

\* pandas to_csv, QUOTE_MINIMAL: a field with a line break in it is written
\* between double quotes, line break included; the lines the field takes
QuotedParts(text) ==
    LET parts == SplitLines(text)
    IN IF Len(parts) > 1
       THEN [i \in 1..Len(parts) |->
                (IF i = 1 THEN "\"" ELSE "") \o parts[i]
                \o (IF i = Len(parts) THEN "\"" ELSE "")]
       ELSE parts

\* the lines of one record: its fields joined by commas, acc the lines
\* written so far
RECURSIVE CsvLines(_, _)
CsvLines(fields, acc) ==
    IF fields = <<>> THEN acc
    ELSE LET q == QuotedParts(Head(fields))
         IN CsvLines(Tail(fields),
                     [acc EXCEPT ![Len(acc)] = @ \o "," \o q[1]] \o Tail(q))
CsvRecordLines(fields) == CsvLines(Tail(fields), QuotedParts(Head(fields)))

\* the lines of the records of the data frame, one record after the other
RECURSIVE CsvBody(_)
CsvBody(ms) ==
    IF ms = <<>> THEN <<>>
    ELSE CsvRecordLines(CsvLine(Head(ms))) \o CsvBody(Tail(ms))

\* export_to_csv: written is FALSE when the function returns None
ExportToCsv(db, old) ==
    LET ms == GetAllMedicines(db.medicines)
    \* get_all_medicines raises when the table does not exist
    IN IF ~db.medTable
       THEN [raised |-> TRUE, written |-> FALSE, file |-> old]
       ELSE IF ms # <<>>
       THEN [raised |-> FALSE, written |-> TRUE,
             file |-> CsvRecordLines(CsvHeader) \o CsvBody(ms)]
       ELSE [raised |-> FALSE, written |-> FALSE, file |-> old]

\* PrologFact with the apostrophe of the brand escaped
PrologFactEscaped(row) ==
    "medicine('" \o row.name \o "', '"
    \o (IF row.brand = "Tylenol's" THEN "Tylenol\\'s" ELSE row.brand) \o "', "
    \o PriceText(row.price) \o ", '" \o row.dosage \o "', '" \o row.form
    \o "', " \o (IF row.otc # 0 THEN "true" ELSE "false") \o ", '"
    \o row.description \o "', '" \o row.side_effects \o "', '"
    \o row.category \o "').\n"

\* export_to_prolog, line 16
PrologFact(row) ==
    "medicine('" \o row.name \o "', '" \o row.brand \o "', "
    \o PriceText(row.price) \o ", '" \o row.dosage \o "', '" \o row.form
    \o "', " \o (IF row.otc # 0 THEN "true" ELSE "false") \o ", '"
    \o row.description \o "', '" \o row.side_effects \o "', '"
    \o row.category \o "').\n"

\* export_to_prolog: the SELECT raises when the table does not exist
ExportToProlog(db, old) ==
    IF db.medTable
    THEN [raised |-> FALSE,
          file |-> <<"% Prolog knowledge base for medicines\n">>
                   \o [i \in 1..Len(db.medicines) |-> PrologFact(db.medicines[i])]]
    ELSE [raised |-> TRUE, file |-> old]

(***************************************************************************)
(* State of the store and of the files, and of the last store operation.   *)
(***************************************************************************)
VARIABLES
    \* medicine.db
    db,
    \* medicines.csv and medicines.pl
    csvFile, plFile,
    \* the last operation, the Medicine it was given, whether it raised
    lastOp, lastMed, lastRaised

storeVars == <<db, csvFile, plFile>>
opVars == <<lastOp, lastMed, lastRaised>>

VARIABLE
    \* a connection that an operation opened is still open after the
    \* operation has ended
    connLeft

\* LeavesOpen where every operation closes its connection on every path
LeavesOpenNever(raised) == FALSE

\* conn.close() is the last statement of each operation, outside any
\* finally clause: a statement that raises after connect leaves it undone
LeavesOpen(raised) == raised

NoMedicine ==
    [name |-> "", brand |-> "", price |-> 0, dosage |-> "", form |-> "",
     otc |-> FALSE, description |-> "", side_effects |-> "", category |-> "",
     date_added |-> ""]

\* medicine.db outlives the process: a session starts on a file that does
\* not exist yet, or on one an earlier session left
PriorMedicine ==
    [name |-> "Aspirin", brand |-> "Bayer", price |-> 5, dosage |-> "500mg",
     form |-> "tablet", otc |-> TRUE, description |-> "pain relief",
     side_effects |-> "nausea", category |-> "NSAID", date_added |-> "2026-11-01"]
InitialDatabases ==
    {Database(FALSE, <<>>, FALSE, <<>>),
     Database(TRUE, <<MedicineRow(PriorMedicine, 1)>>, TRUE, <<>>)}

StoreInit ==
    /\ db \in InitialDatabases
    /\ csvFile = NoFile
    /\ plFile = NoFile
    /\ lastOp = "none"
    /\ lastMed = NoMedicine
    /\ lastRaised = FALSE
    /\ connLeft = FALSE

(***************************************************************************)
(* The presentation layer: session state, and what the user's actions are  *)
(* tried with.                                                             *)
(***************************************************************************)
VARIABLES
    \* st.session_state.messages, .mcp_messages, .medicines
    messages, mcpMessages, sessMedicines,
    \* the number of actions of the user so far, and of agent runs started
    clicks, agentRuns,
    \* what the last search and the last relay query were given and did
    lastSearch, lastMcp

uiVars == <<messages, mcpMessages, sessMedicines, clicks, agentRuns,
            lastSearch, lastMcp>>

VARIABLES
    \* one session's script, step by step: where the script stands ("idle"
    \* between two runs), the actions of the user not yet served, the action
    \* being served, the number of actions served so far
    spc, pending, cur, started,
    \* the agent runs and the store writes that have begun and not ended
    agentsInFlight, writesInFlight,
    \* in the search being served: the agent run has returned, the insert
    \* has committed
    agentDone, committed

runVars == <<spc, pending, cur, started, agentsInFlight, writesInFlight,
             agentDone, committed>>
vars == <<normVars, storeVars, opVars, connLeft, uiVars, runVars>>

\* the interpreter finalizes the connections no name refers to any more
Collect ==
    /\ connLeft
    /\ connLeft' = FALSE
    /\ UNCHANGED <<storeVars, opVars, uiVars, runVars, normVars>>

\* Msg where every message is filed under the user's role
MsgAllUser(role, kind, str, text) == [role |-> "user", kind |-> kind, s |-> str, text |-> text]

\* a chat message: s holds a content that is a string, text one that is a
\* text of tokens or of characters
Msg(role, kind, str, text) == [role |-> role, kind |-> kind, s |-> str, text |-> text]

Done(success, text) ==
    [action |-> "done", success |-> success, hasText |-> TRUE, text |-> text]
FinalText(text) == [accessor |-> TRUE, kind |-> "text", text |-> text]

\* the run results a search is tried with
AppRuns ==
    [final : {NoFinal, FinalText(<<"A">>), FinalText(<<"x">>)},
     iterable : {TRUE},
     steps : {<<>>, <<Done(TRUE, <<"x">>)>>, <<Done(TRUE, <<"A">>)>>,
              <<Done(FALSE, <<"A">>), Done(TRUE, <<"B">>)>>}]
    \cup {[final |-> NoFinal, iterable |-> FALSE, steps |-> <<Done(TRUE, <<"A">>)>>]}
    \* results that carry no successful done step
    \cup [final : {[accessor |-> TRUE, kind |-> "none", text |-> <<>>],
                  [accessor |-> TRUE, kind |-> "nonstr", text |-> <<>>],
                  FinalText(<<"}", "{">>)},
          iterable : {TRUE},
          steps : {<<Done(FALSE, <<"A">>)>>,
                   <<[action |-> "none", success |-> FALSE, hasText |-> FALSE,
                      text |-> <<>>],
                     [action |-> "done", success |-> TRUE, hasText |-> FALSE,
                      text |-> <<>>]>>}]
\* the run result holds the token "A", whose document is an input too
UsesA(run) ==
    \/ \E i \in 1..Len(run.final.text) : run.final.text[i] = "A"
    \/ \E k \in 1..Len(run.steps) :
          \E i \in 1..Len(run.steps[k].text) : run.steps[k].text[i] = "A"
NoRun == [final |-> NoFinal, iterable |-> FALSE, steps |-> <<>>]
\* what agent.run does: it raises err, or returns run
AgentRaises == [raises |-> TRUE, err |-> "Browser closed", run |-> NoRun]
AgentReturns(run) == [raises |-> FALSE, err |-> "", run |-> run]
\* the documents of token "A" a search is tried with
AppObjects ==
    {JDict(m) : m \in
        {[generic_name |-> JStr("ibuprofen"),
          brand_names |-> JList(<<JStr("Advil"), JStr("Motrin")>>),
          dosage_forms |-> JList(<<JStr("tablet"), JStr("gel")>>),
          drug_class |-> JStr("NSAID")],
         [drug_class |-> JStr("NSAID")],
         [name |-> None, brand |-> JStr("Nurofen")],
         [brand_names |-> JList(<<JStr("Advil"), None>>)],
         \* an object that carries the keys of the fields line 143-155 fix
         [name |-> JStr("Ibuprofen"), price |-> JStr("9.99"),
          form |-> JStr("tablet"), otc |-> JStr("true"),
          side_effects |-> JStr("nausea"), date_added |-> JStr("1999-01-01")]}}

\* Get with the empty string for every default
GetEmpty(map, k, default) == IF k \in DOMAIN map THEN map[k] ELSE JStr("")

\* dict.get(k, default)
Get(map, k, default) == IF k \in DOMAIN map THEN map[k] ELSE default

\* load_medicines: the session's list is replaced only by a non-empty one
LoadMedicines(d, sess) ==
    IF d.medTable /\ d.medicines # <<>> THEN GetAllMedicines(d.medicines) ELSE sess

\* a value handed to a str field of Medicine
StrField(v) == IF v.ty = "str" THEN v.s ELSE Null

\* BuildMedicine where form, side_effects and date_added are taken from
\* the mapping when it has them
BuildMedicineFromOutput(map, medicine_name, today) ==
    LET name == Get(map, "name", JStr(medicine_name))
        brand == Get(map, "brand", JStr("N/A"))
        category == Get(map, "category", JStr("N/A"))
        dosage == Get(map, "dosage", JStr("N/A"))
    IN [valid |-> \A v \in {name, brand, category, dosage} : v.ty = "str",
        medicine |->
            [name |-> StrField(name), brand |-> StrField(brand), price |-> 0,
             dosage |-> StrField(dosage),
             form |-> StrField(Get(map, "form", JStr("Various"))),
             otc |-> FALSE,
             description |-> "Information extracted from drugs.com: " \o name.s
                             \o " in category " \o category.s,
             side_effects |-> StrField(Get(map, "side_effects", JStr(
                "Please consult your healthcare provider for side effects information."))),
             category |-> StrField(category),
             date_added |-> StrField(Get(map, "date_added", JStr(today)))]]

\* search_medicine_info, lines 136-156: the Medicine built from the
\* normalizer's mapping; valid is FALSE when pydantic rejects it
BuildMedicine(map, medicine_name, today) ==
    LET name == Get(map, "name", JStr(medicine_name))
        brand == Get(map, "brand", JStr("N/A"))
        category == Get(map, "category", JStr("N/A"))
        dosage == Get(map, "dosage", JStr("N/A"))
    IN [valid |-> \A v \in {name, brand, category, dosage} : v.ty = "str",
        medicine |->
            [name |-> StrField(name), brand |-> StrField(brand), price |-> 0,
             dosage |-> StrField(dosage), form |-> "Various", otc |-> FALSE,
             description |-> "Information extracted from drugs.com: " \o name.s
                             \o " in category " \o category.s,
             side_effects |->
                "Please consult your healthcare provider for side effects information.",
             category |-> StrField(category), date_added |-> today]]

\* search_medicine_info: found is TRUE when it returns the Medicine, raised
\* when it raises err; runs counts the calls of agent.run
SearchMedicineInfo(medicine_name, llm, agent, da, today, d, sess) ==
    LET quiet == [raised |-> FALSE, err |-> "", found |-> FALSE, runs |-> 0,
                  norm |-> None, db |-> d, sess |-> sess]
    IN IF ~llm THEN quiet
       ELSE IF agent.raises
       THEN [quiet EXCEPT !.raised = TRUE, !.err = agent.err, !.runs = 1]
       ELSE LET norm == ProcessResult(agent.run, da)
                ran == [quiet EXCEPT !.runs = 1, !.norm = norm]
            IN IF ~Truthy(norm) THEN ran
               ELSE IF norm.ty # "dict"
               THEN [ran EXCEPT !.raised = TRUE, !.err = "no attribute 'get'"]
               ELSE LET b == BuildMedicine(norm.d, medicine_name, today)
                        a == AddMedicine(d, b.medicine)
                    IN IF ~b.valid
                       THEN [ran EXCEPT !.raised = TRUE, !.err = "validation error"]
                       ELSE IF a.raised
                       THEN [ran EXCEPT !.raised = TRUE, !.err = "no such table"]
                       ELSE [ran EXCEPT !.found = TRUE, !.db = a.db,
                                        !.sess = LoadMedicines(a.db, sess)]

\* SearchReply that hides an error behind the generic message
SearchReplySwallow(r) ==
    IF r.found THEN Msg("assistant", "nostructured", "", <<>>)
    ELSE Msg("assistant", "sorry", "", <<>>)

\* the search handler, lines 349-428: the assistant message it appends
SearchReply(r) ==
    IF r.raised THEN Msg("assistant", "error", r.err, <<>>)
    \* a Medicine has no attribute medicines, and none of its fields is a
    \* mapping, so lines 354 and 402 are never true
    ELSE IF r.found THEN Msg("assistant", "nostructured", "", <<>>)
    ELSE Msg("assistant", "sorry", "", <<>>)

\* run_mcp_query, lines 183-188
IsWriteOperation(prompt) ==
    \E i \in 1..Len(write_operations) : Contains(Upper(prompt), write_operations[i])
Endpoint(prompt) == IF IsWriteOperation(prompt) THEN "write" ELSE "read"

\* str(status)
StatusText(status) == CASE status = 200 -> "200" [] status = 400 -> "400"
ConnectAdvice ==
    "Cannot connect to MCP server. Please make sure it's running with: "
    \o "uvicorn mcp_server:app --reload"

\* McpResult that hands on the body whatever the status
McpResultBody(relayUp, lost, status, body) ==
    IF ~relayUp THEN Body("error", ConnectAdvice, <<>>)
    ELSE IF lost THEN Body("error", "Error executing query: Server disconnected", <<>>)
    ELSE body

\* run_mcp_query, lines 190-207: what it returns
McpResult(relayUp, lost, status, body) ==
    IF ~relayUp THEN Body("error", ConnectAdvice, <<>>)
    ELSE IF lost THEN Body("error", "Error executing query: Server disconnected", <<>>)
    ELSE IF status = 200 THEN body
    ELSE Body("error", "Error " \o StatusText(status) \o ": {\"detail\":\""
                       \o body.s \o "\"}", <<>>)

\* run_mcp_query: posted lists the endpoints a request was posted to;
\* status and body are the response of the relay, kind, s and results the
\* object returned.  The connection is refused (relayUp is FALSE), the
\* response arrives, or the exchange breaks after the relay ran the
\* statement (lost)
RunMcpQuery(prompt, relayUp, lost, d) ==
    LET e == Endpoint(prompt)
        r == IF e = "write" THEN WriteQuery(prompt, d) ELSE ReadQuery(prompt, d)
        res == McpResult(relayUp, lost, r.status, r.body)
    IN [posted |-> <<e>>, kind |-> res.kind, s |-> res.s, results |-> res.results,
        status |-> IF relayUp THEN r.status ELSE 0,
        body |-> IF relayUp THEN r.body ELSE Body("none", "", <<>>),
        db |-> IF relayUp THEN r.db ELSE d]

\* the relay handler, lines 532-577: the assistant message it appends
McpReply(r) ==
    CASE r.kind = "error" -> Msg("assistant", "mcp_error", r.s, <<>>)
      [] r.kind = "results" /\ r.results # <<>> ->
            Msg("assistant", "query_results", "", <<>>)
      [] r.kind = "results" /\ r.results = <<>> ->
            Msg("assistant", "no_results", "", <<>>)
      [] r.kind = "message" ->
            Msg("assistant", "message", "Query executed successfully.", <<>>)
      \* lines 569-573: an object with none of the three keys
      [] OTHER -> Msg("assistant", "received", r.s, <<>>)

(***************************************************************************)
(* What the properties below observe of a search's input.                  *)
(***************************************************************************)
\* the text holds an opening brace with a closing brace at or after it
BraceDelimited(text) ==
    \E i \in 1..Len(text) : \E j \in i..Len(text) :
        text[i] \in {"A", "B", "{"} /\ text[j] \in {"A", "B", "}"}
\* the step carries a done mapping with success true and a text
SuccessfulDone(step) == step.action = "done" /\ step.success /\ step.hasText
\* no JSON can be extracted anywhere from the run result
NoExtractableJson(run) ==
    /\ \/ ~run.final.accessor
       \/ run.final.kind # "text"
       \/ ~BraceDelimited(run.final.text)
    /\ \A i \in 1..Len(run.steps) : ~SuccessfulDone(run.steps[i])
\* the run has a step with a successful done outcome
HasNarrative(run) == \E i \in 1..Len(run.steps) : SuccessfulDone(run.steps[i])
\* the text of the first such step
Narrative(run) ==
    IF HasNarrative(run)
    THEN run.steps[CHOOSE i \in 1..Len(run.steps) :
                       /\ SuccessfulDone(run.steps[i])
                       /\ \A j \in 1..(i - 1) : ~SuccessfulDone(run.steps[j])].text
    ELSE <<>>

(***************************************************************************)
(* The user's actions.  Streamlit runs the script from the top on every    *)
(* action: initialize_database (line 33), the handler of the button        *)
(* pressed, and the load of line 434 when the session's list is empty.     *)
(***************************************************************************)
NoSearch ==
    [name |-> "", outcome |-> "none", err |-> "", noJson |-> FALSE,
     hasNarrative |-> FALSE, narrative |-> <<>>, norm |-> None, found |-> FALSE]
NoMcp ==
    [prompt |-> <<>>, posted |-> <<>>, relayUp |-> FALSE, kind |-> "none",
     lost |-> FALSE, status |-> 0, body |-> Body("none", "", <<>>),
     result |-> Body("none", "", <<>>)]

UiInit ==
    /\ messages = <<>>
    /\ mcpMessages = <<>>
    /\ sessMedicines = <<>>
    /\ clicks = 0
    /\ agentRuns = 0
    /\ lastSearch = NoSearch
    /\ lastMcp = NoMcp

\* lines 434-435
AutoLoad(d, sess) == IF sess = <<>> THEN LoadMedicines(d, sess) ELSE sess

\* the Search button, lines 340-428
ClickSearch(name, llm, agent, da, today) ==
    /\ clicks < MaxClicks
    /\ Len(db.medicines) < MaxRows
    /\ clicks' = clicks + 1
    /\ lastOp' = "search"
    /\ \E d1 \in {InitializeDatabase(db)} :
       \E r \in {SearchMedicineInfo(name, llm, agent, da, today, d1, sessMedicines)} :
          IF name = ""
          THEN /\ db' = d1
               /\ sessMedicines' = AutoLoad(d1, sessMedicines)
               /\ lastSearch' = [NoSearch EXCEPT !.outcome = "empty"]
               /\ UNCHANGED <<messages, agentRuns, connLeft>>
          ELSE /\ db' = r.db
               /\ sessMedicines' = AutoLoad(r.db, r.sess)
               /\ messages' = messages \o
                    <<Msg("user", "find", "Find information about " \o name, <<>>),
                      SearchReply(r)>>
               /\ agentRuns' = agentRuns + r.runs
               /\ lastSearch' =
                    [name |-> name,
                     outcome |-> IF ~llm THEN "nollm"
                                 ELSE IF agent.raises THEN "raise" ELSE "returned",
                     err |-> IF llm /\ agent.raises THEN agent.err ELSE "",
                     noJson |-> llm /\ ~agent.raises /\ NoExtractableJson(agent.run),
                     hasNarrative |-> llm /\ ~agent.raises /\ HasNarrative(agent.run),
                     narrative |-> IF llm /\ ~agent.raises
                                   THEN Narrative(agent.run) ELSE <<>>,
                     norm |-> r.norm,
                     found |-> r.found]
               \* add_medicine is the one store operation of a search
               \* that may raise
               /\ connLeft' = (connLeft \/ LeavesOpen(r.err = "no such table"))
    /\ UNCHANGED <<runVars, normVars, csvFile, plFile, lastMed, lastRaised, mcpMessages, lastMcp>>

\* the Run MCP Query button, lines 519-583
ClickMcp(prompt, relayUp, lost) ==
    /\ clicks < MaxClicks
    /\ clicks' = clicks + 1
    /\ lastOp' = "mcp"
    /\ \E d1 \in {InitializeDatabase(db)} :
       \E r \in {RunMcpQuery(prompt, relayUp, lost, d1)} :
          /\ sessMedicines' = AutoLoad(d1, sessMedicines)
          /\ IF prompt = <<>>
             THEN /\ db' = d1
                  /\ lastMcp' = NoMcp
                  /\ UNCHANGED mcpMessages
             ELSE /\ db' = r.db
                  /\ mcpMessages' = mcpMessages \o
                        <<Msg("user", "sql", "", prompt), McpReply(r)>>
                  /\ lastMcp' = [prompt |-> prompt, posted |-> r.posted,
                                 relayUp |-> relayUp, kind |-> r.kind,
                                 lost |-> lost, status |-> r.status,
                                 body |-> r.body,
                                 result |-> Body(r.kind, r.s, r.results)]
          /\ connLeft' = (connLeft \/ (prompt # <<>> /\ LeavesOpen(r.status = 400)))
    /\ UNCHANGED <<runVars, normVars, csvFile, plFile, lastMed, lastRaised, messages,
                   agentRuns, lastSearch>>

\* the Load Medicines button, lines 260-264
ClickLoad ==
    /\ clicks < MaxClicks
    /\ clicks' = clicks + 1
    /\ lastOp' = "load"
    /\ db' = InitializeDatabase(db)
    /\ sessMedicines' = AutoLoad(db', LoadMedicines(db', sessMedicines))
    /\ UNCHANGED <<connLeft, runVars, normVars, csvFile, plFile, lastMed, lastRaised, messages,
                   mcpMessages, agentRuns, lastSearch, lastMcp>>

\* the Export to CSV button, lines 266-277
ClickExportCsv ==
    /\ clicks < MaxClicks
    /\ clicks' = clicks + 1
    /\ lastOp' = "export_csv"
    /\ db' = InitializeDatabase(db)
    /\ csvFile' = ExportToCsv(db', csvFile).file
    /\ connLeft' = (connLeft \/ LeavesOpen(ExportToCsv(db', csvFile).raised))
    /\ sessMedicines' = AutoLoad(db', sessMedicines)
    /\ UNCHANGED <<runVars, normVars, plFile, lastMed, lastRaised, messages, mcpMessages,
                   agentRuns, lastSearch, lastMcp>>

\* the Export to Prolog button, lines 279-293
ClickExportProlog ==
    /\ clicks < MaxClicks
    /\ clicks' = clicks + 1
    /\ lastOp' = "export_prolog"
    /\ db' = InitializeDatabase(db)
    /\ plFile' = ExportToProlog(db', plFile).file
    /\ connLeft' = (connLeft \/ LeavesOpen(ExportToProlog(db', plFile).raised))
    /\ sessMedicines' = AutoLoad(db', sessMedicines)
    /\ UNCHANGED <<runVars, normVars, csvFile, lastMed, lastRaised, messages, mcpMessages,
                   agentRuns, lastSearch, lastMcp>>

\* a search with the name left empty, without a language model, with an
\* agent run that raises, and with one that returns
Next ==
    \/ \E today \in Dates : ClickSearch("", TRUE, AgentRaises, None, today)
    \/ \E name \in Names, today \in Dates :
            ClickSearch(name, FALSE, AgentRaises, None, today)
    \/ \E name \in Names, today \in Dates :
            ClickSearch(name, TRUE, AgentRaises, None, today)
    \/ \E name \in Names, run \in AppRuns, today \in Dates :
         \E da \in (IF UsesA(run) THEN AppObjects ELSE {None}) :
            ClickSearch(name, TRUE, AgentReturns(run), da, today)
    \/ \E prompt \in Prompts \cup {<<>>}, relayUp \in BOOLEAN :
            ClickMcp(prompt, relayUp, FALSE)
    \* the exchange breaks on a statement read, and on one written
    \/ \E prompt \in {SqlSelect, SqlUpdate} : ClickMcp(prompt, TRUE, TRUE)
    \/ ClickLoad
    \/ ClickExportCsv
    \/ ClickExportProlog
    \/ Collect

(***************************************************************************)
(* One call of _process_result, step by step, on any run result.           *)
(***************************************************************************)
\* lines 108-112: every exception of the try block is caught
Caught(raisedInside) == FALSE

\* lines 46-64, and the tail 85-112 when the step loop is not entered
NormBegin(final, it, da) ==
    /\ npc = "idle"
    /\ docA' = da
    /\ finalIn' = final
    /\ iterable' = it
    /\ qualSeen' = FALSE
    /\ UNCHANGED <<storeVars, opVars, connLeft, uiVars, runVars>>
    /\ LET f == FinalData(final, da)
       IN IF f.raised
          THEN /\ npc' = "done"
               /\ data' = None
               /\ consulted' = FALSE
               /\ out' = None
               /\ outRaised' = Caught(TRUE)
          ELSE IF f.data = None /\ it
          THEN /\ npc' = "scan"
               /\ data' = None
               /\ consulted' = TRUE
               /\ UNCHANGED <<out, outRaised>>
          ELSE /\ npc' = "done"
               /\ data' = f.data
               /\ consulted' = FALSE
               /\ out' = Normalize(f.data)
               /\ outRaised' = FALSE

\* lines 65-83, one iteration, and the tail 85-112 after a break
NormScanStep(step) ==
    /\ npc = "scan"
    /\ qualSeen' = (qualSeen \/ Qualifies(step))
    /\ LET o == StepOutcome(step, docA)
       IN IF o.kind = "break"
          THEN /\ npc' = "done"
               /\ data' = o.data
               /\ out' = Normalize(o.data)
               /\ outRaised' = FALSE
          ELSE UNCHANGED <<npc, data, out, outRaised>>
    /\ UNCHANGED <<docA, finalIn, iterable, consulted>>
    /\ UNCHANGED <<storeVars, opVars, connLeft, uiVars, runVars>>

\* the step loop ends with the steps exhausted; the tail 85-112
NormScanEnd ==
    /\ npc = "scan"
    /\ npc' = "done"
    /\ out' = Normalize(data)
    /\ outRaised' = FALSE
    /\ UNCHANGED <<docA, finalIn, iterable, data, consulted, qualSeen>>
    /\ UNCHANGED <<storeVars, opVars, connLeft, uiVars, runVars>>

\* the next call starts from scratch
NormReset ==
    /\ npc = "done"
    /\ npc' = "idle"
    /\ docA' = None
    /\ finalIn' = NoFinal
    /\ iterable' = FALSE
    /\ data' = None
    /\ consulted' = FALSE
    /\ qualSeen' = FALSE
    /\ out' = None
    /\ outRaised' = FALSE
    /\ UNCHANGED <<storeVars, opVars, connLeft, uiVars, runVars>>

NormNext ==
    \/ \E final \in Finals, it \in BOOLEAN, da \in Objects : NormBegin(final, it, da)
    \/ \E step \in StepSet : NormScanStep(step)
    \/ NormScanEnd
    \/ NormReset

(***************************************************************************)
(* The step loop of _process_result, on run results whose final result     *)
(* yields no data (line 65).                                               *)
(***************************************************************************)
\* final_result is missing, yields None, or yields a text without braces
ScanFinals ==
    {NoFinal,
     [accessor |-> TRUE, kind |-> "none", text |-> <<>>],
     [accessor |-> TRUE, kind |-> "text", text |-> <<"x">>]}

ScanBegin(final, da) == NormBegin(final, TRUE, da)

ScanNext ==
    \/ \E final \in ScanFinals, da \in Objects : ScanBegin(final, da)
    \/ \E step \in StepSet : NormScanStep(step)
    \/ NormScanEnd
    \/ NormReset

(***************************************************************************)
(* The store's operations called one by one, by any client.                *)
(***************************************************************************)
StoreCall(op, m, raised) ==
    /\ lastOp' = op
    /\ lastMed' = m
    /\ lastRaised' = raised
    /\ connLeft' = (connLeft \/ LeavesOpen(raised))
    /\ UNCHANGED <<runVars, normVars, uiVars>>

StoreInitialize ==
    /\ db' = InitializeDatabase(db)
    /\ StoreCall("initialize_database", NoMedicine, FALSE)
    /\ UNCHANGED <<csvFile, plFile>>

StoreAddMedicine(m) ==
    /\ Len(db.medicines) < MaxRows
    /\ db' = AddMedicine(db, m).db
    /\ StoreCall("add_medicine", m, AddMedicine(db, m).raised)
    /\ UNCHANGED <<csvFile, plFile>>

StoreAddInsight(n) ==
    /\ Len(db.insights) < MaxRows
    /\ db' = AddInsight(db, n).db
    /\ StoreCall("add_insight", NoMedicine, AddInsight(db, n).raised)
    /\ UNCHANGED <<csvFile, plFile>>

StoreReadQuery(sql) ==
    /\ db' = ReadQuery(sql, db).db
    /\ StoreCall("read_query", NoMedicine, ReadQuery(sql, db).status # 200)
    /\ UNCHANGED <<csvFile, plFile>>

StoreWriteQuery(sql) ==
    /\ db' = WriteQuery(sql, db).db
    /\ StoreCall("write_query", NoMedicine, WriteQuery(sql, db).status # 200)
    /\ UNCHANGED <<csvFile, plFile>>

StoreExportCsv ==
    /\ csvFile' = ExportToCsv(db, csvFile).file
    /\ StoreCall("export_to_csv", NoMedicine, ExportToCsv(db, csvFile).raised)
    /\ UNCHANGED <<db, plFile>>

StoreExportProlog ==
    /\ plFile' = ExportToProlog(db, plFile).file
    /\ StoreCall("export_to_prolog", NoMedicine, ExportToProlog(db, plFile).raised)
    /\ UNCHANGED <<db, csvFile>>

StoreNext ==
    \/ StoreInitialize
    \/ \E m \in Medicines : StoreAddMedicine(m)
    \/ \E n \in MedicineInsights : StoreAddInsight(n)
    \/ \E sql \in Prompts : StoreReadQuery(sql)
    \/ \E sql \in Prompts : StoreWriteQuery(sql)
    \/ Collect

\* the export utilities on a store that is only added to
ExportNext ==
    \/ StoreInitialize
    \/ \E m \in ExportMedicines : StoreAddMedicine(m)
    \/ StoreExportCsv
    \/ StoreExportProlog

(***************************************************************************)
(* One session's script, step by step.  Streamlit runs the script once per *)
(* action of the user, one run after the other; asyncio.run (lines 351 and *)
(* 530) returns when the coroutine it was given has finished.              *)
(***************************************************************************)
\* the buttons of the page: lines 340 and 519, and the sidebar's (260-293)
UserActions == {"search", "mcp", "load", "csv", "prolog"}

RunInit ==
    /\ spc = "idle"
    /\ pending = <<>>
    /\ cur = "none"
    /\ started = 0
    /\ agentsInFlight = 0
    /\ writesInFlight = 0
    /\ agentDone = FALSE
    /\ committed = FALSE

RunFrame == UNCHANGED <<normVars, storeVars, opVars, connLeft, uiVars>>

\* CanStart where nothing waits for the script to finish
CanStartAnytime(pc) == TRUE

\* the script is run for the next action when the run before has finished
CanStart(pc) == pc = "idle"

\* the user presses a button, whatever the script is doing
UserAction(kind) ==
    /\ started + Len(pending) < MaxClicks
    /\ pending' = Append(pending, kind)
    /\ UNCHANGED <<spc, cur, started, agentsInFlight, writesInFlight, agentDone,
                   committed>>
    /\ RunFrame

\* line 33: the script starts and calls initialize_database
ScriptStart ==
    /\ CanStart(spc)
    /\ pending # <<>>
    /\ cur' = Head(pending)
    /\ pending' = Tail(pending)
    /\ started' = started + 1
    /\ spc' = "init"
    /\ writesInFlight' = writesInFlight + 1
    /\ agentDone' = FALSE
    /\ committed' = FALSE
    /\ UNCHANGED agentsInFlight
    /\ RunFrame

\* initialize_database has committed; line 351 starts the agent run, line
\* 530 posts the SQL text to the relay, which writes when write is TRUE
InitDone(write) ==
    /\ spc = "init"
    /\ IF cur = "search"
       THEN /\ spc' = "agent"
            /\ agentsInFlight' = agentsInFlight + 1
            /\ writesInFlight' = writesInFlight - 1
       ELSE IF cur = "mcp"
       THEN /\ spc' = "relay"
            /\ writesInFlight' = writesInFlight - 1 + (IF write THEN 1 ELSE 0)
            /\ UNCHANGED agentsInFlight
       ELSE /\ spc' = "idle"
            /\ writesInFlight' = writesInFlight - 1
            /\ UNCHANGED agentsInFlight
    /\ UNCHANGED <<pending, cur, started, agentDone, committed>>
    /\ RunFrame

\* line 130: the agent run returns a mapping (line 162 then starts the
\* insert), returns nothing, or raises
AgentDone(outcome) ==
    /\ spc = "agent"
    /\ agentsInFlight' = agentsInFlight - 1
    /\ agentDone' = TRUE
    /\ IF outcome = "mapping"
       THEN spc' = "insert" /\ writesInFlight' = writesInFlight + 1
       ELSE spc' = "idle" /\ UNCHANGED writesInFlight
    /\ UNCHANGED <<pending, cur, started, committed>>
    /\ RunFrame

\* line 162: add_medicine has committed; line 165 starts the reload
InsertDone ==
    /\ spc = "insert"
    /\ writesInFlight' = writesInFlight - 1
    /\ committed' = TRUE
    /\ spc' = "reload"
    /\ UNCHANGED <<pending, cur, started, agentsInFlight, agentDone>>
    /\ RunFrame

\* line 165: load_medicines has returned, and the script runs to its end
ReloadDone ==
    /\ spc = "reload"
    /\ spc' = "idle"
    /\ UNCHANGED <<pending, cur, started, agentsInFlight, writesInFlight,
                   agentDone, committed>>
    /\ RunFrame

\* line 530: run_mcp_query has returned
RelayDone ==
    /\ spc = "relay"
    /\ spc' = "idle"
    /\ writesInFlight' = 0
    /\ UNCHANGED <<pending, cur, started, agentsInFlight, agentDone, committed>>
    /\ RunFrame

RunNext ==
    \/ \E kind \in UserActions : UserAction(kind)
    \/ ScriptStart
    \/ \E write \in BOOLEAN : InitDone(write)
    \/ \E outcome \in {"mapping", "nothing", "raise"} : AgentDone(outcome)
    \/ InsertDone
    \/ ReloadDone
    \/ RelayDone

Init == NormInit /\ StoreInit /\ UiInit /\ RunInit

Spec == Init /\ [][Next]_vars
SpecStore == Init /\ [][StoreNext]_vars
SpecExport == Init /\ [][ExportNext]_vars
\* the normalizer does not touch the store: one store to start from
InitNorm == Init /\ db = Database(FALSE, <<>>, FALSE, <<>>)
SpecNorm == InitNorm /\ [][NormNext]_vars
SpecRun == InitNorm /\ [][RunNext]_vars
SpecScan == InitNorm /\ [][ScanNext]_vars

(***************************************************************************)
(* Properties.                                                             *)
(***************************************************************************)

\* C1: after add_medicine(m) returns, on any prior content of the store,
\* get_all_medicines returns a list that holds a record equal to m in all
\* ten fields, otc included.
C1_RoundTrip ==
    (lastOp = "add_medicine" /\ ~lastRaised) =>
        \E i \in 1..Len(db.medicines) : GetAllMedicines(db.medicines)[i] = lastMed
\* an over-the-counter medicine was added to a table that held a row
C1_Witness ==
    /\ lastOp = "add_medicine" /\ ~lastRaised
    /\ lastMed.otc
    /\ Len(db.medicines) = 2

\* a step keeps every row of the medicines table, with its values and its
\* id, and gives no new row the id of a row already there
RowsKept ==
    /\ Len(db'.medicines) >= Len(db.medicines)
    /\ SubSeq(db'.medicines, 1, Len(db.medicines)) = db.medicines
    /\ \A j \in (Len(db.medicines) + 1)..Len(db'.medicines) :
          \A i \in 1..Len(db.medicines) : db'.medicines[j].id # db.medicines[i].id
\* the step is a relay query that the write endpoint received
RelayWrite ==
    /\ lastOp' = "mcp"
    /\ clicks' = clicks + 1
    /\ lastMcp'.posted = <<"write">>
    /\ lastMcp'.relayUp

ExpectedEndpoint(prompt) ==
    CASE prompt = SqlSelect -> "read"
      [] prompt = SqlUpdate -> "write"
      [] prompt = SqlInsertLog -> "write"
      [] prompt = SqlDelete -> "write"
      [] prompt = SqlDrop -> "write"
      \* date_created holds CREATE
      [] prompt = SqlSelectCreated -> "write"
      [] prompt = SqlReplace -> "read"
      [] prompt = SqlUpdateNull -> "write"

\* C3: run_mcp_query posts the SQL text to the write endpoint iff its
\* upper-cased text holds one of the six keywords anywhere, to the read
\* endpoint otherwise, and posts exactly one request per call.
C3_Classification ==
    lastMcp.kind # "none" =>
        /\ Len(lastMcp.posted) = 1
        /\ lastMcp.posted[1] = ExpectedEndpoint(lastMcp.prompt)
\* a SELECT whose column name holds a keyword went to the write endpoint
C3_Witness ==
    /\ lastMcp.prompt = SqlSelectCreated
    /\ lastMcp.posted = <<"write">>

\* the comma-join of the lists of texts of the model
ExpectedBrand(items) ==
    CASE items = <<>> -> ""
      [] items = <<JStr("Advil")>> -> "Advil"
      [] items = <<JStr("Advil"), JStr("Motrin")>> -> "Advil, Motrin"
      [] OTHER -> ""

\* C4 as stated: whenever the JSON object recovered has a list under
\* brand_names, _process_result returns a mapping with brand equal to the
\* comma-join of the list and without brand_names.
C4_BrandJoin ==
    (/\ npc = "done"
     /\ data.ty = "dict"
     /\ "brand_names" \in DOMAIN data.d
     /\ data.d["brand_names"].ty = "list") =>
        /\ out.ty = "dict"
        /\ "brand" \in DOMAIN out.d
        /\ "brand_names" \notin DOMAIN out.d
        /\ (\A i \in 1..Len(data.d["brand_names"].items) :
                data.d["brand_names"].items[i].ty = "str")
           => out.d["brand"] = JStr(ExpectedBrand(data.d["brand_names"].items))

\* C5: when the run result carries no extractable JSON, _process_result
\* returns None without raising, and the search reports that nothing was
\* found and inserts no row.
C5_NoJsonNoRow ==
    [][(lastOp' = "search" /\ clicks' = clicks + 1 /\ lastSearch'.noJson) =>
          /\ lastSearch'.norm = None
          /\ ~lastSearch'.found
          /\ Len(messages') = Len(messages) + 2
          /\ messages'[Len(messages')].kind = "sorry"
          /\ db'.medicines = db.medicines]_vars
\* such a search was made on a store that held a row
C5_Witness ==
    /\ lastOp = "search"
    /\ lastSearch.outcome = "returned"
    /\ lastSearch.noJson
    /\ messages # <<>>
    /\ db.medicines # <<>>

\* the brace-delimited match of the final text (from the first opening
\* brace to the last closing brace) is the text of a JSON object
FinalParses(final) ==
    /\ final.accessor
    /\ final.kind = "text"
    /\ \E i \in 1..Len(final.text) : \E j \in i..Len(final.text) :
          /\ final.text[i] \in {"A", "B", "{"}
          /\ \A b \in 1..(i - 1) : final.text[b] \notin {"A", "B", "{"}
          /\ final.text[j] \in {"A", "B", "}"}
          /\ \A b \in (j + 1)..Len(final.text) : final.text[b] \notin {"A", "B", "}"}
          /\ SubSeq(final.text, i, j) \in {<<"A">>, <<"B">>, <<"{", "}">>}
\* the objects the final text holds
FinalObjects(final, da) ==
    {da : i \in {k \in 1..Len(final.text) : final.text[k] = "A"}}
    \cup {DocB : i \in {k \in 1..Len(final.text) : final.text[k] = "B"}}
    \cup {JDict(EmptyMap) : i \in {k \in 1..(Len(final.text) - 1) :
                final.text[k] = "{" /\ final.text[k + 1] = "}"}}

\* C6: when the brace-delimited match of the final text parses, the call
\* ends with that object as its data and never enters the step loop; the
\* step loop is entered only when the final text gave no data, and a match
\* that fails to parse falls through to it.
C6_Precedence ==
    /\ (npc # "idle" /\ FinalParses(finalIn)) =>
          /\ npc = "done"
          /\ ~consulted
          /\ data \in FinalObjects(finalIn, docA)
          /\ ~outRaised
    /\ consulted => ~FinalParses(finalIn)
    /\ (npc # "idle" /\ ~FinalParses(finalIn) /\ finalIn.kind # "nonstr" /\ iterable)
          => consulted
\* the final text held an object, the run was iterable, and the call
\* returned the normalized object without entering the step loop
C6_Witness ==
    /\ npc = "done"
    /\ finalIn = FinalText(<<"x", "A">>)
    /\ iterable
    /\ ~consulted
    /\ Truthy(out)

\* the ten fields of a Medicine: those that hold a text, those that hold a
\* number
TextFields ==
    {"name", "brand", "dosage", "form", "description", "side_effects",
     "category", "date_added"}
NumberFields == {"price", "otc"}
\* the field of the mapping, or the placeholder when the mapping lacks it
OrPlaceholder(map, k, placeholder) ==
    IF k \in DOMAIN map THEN map[k].s ELSE placeholder

\* C7: every row of the medicines table has a value for each of the ten
\* fields, and the row a search inserts holds the searched name, "N/A" or
\* 0.0 where the agent supplied nothing.
C7_FullyPopulated ==
    /\ \A i \in 1..Len(db.medicines) :
          /\ \A f \in TextFields :
                f \in DOMAIN db.medicines[i] /\ db.medicines[i][f] # Null
          /\ \A f \in NumberFields :
                f \in DOMAIN db.medicines[i] /\ db.medicines[i][f] \in 0..5
    /\ (lastOp = "search" /\ lastSearch.found) =>
          LET row == db.medicines[Len(db.medicines)]
              m == lastSearch.norm.d
          IN /\ row.name = OrPlaceholder(m, "name", lastSearch.name)
             /\ row.brand = OrPlaceholder(m, "brand", "N/A")
             /\ row.dosage = OrPlaceholder(m, "dosage", "N/A")
             /\ row.category = OrPlaceholder(m, "category", "N/A")
             /\ row.price = 0
\* a search whose agent supplied neither name nor brand inserted a row
C7_Witness ==
    /\ lastOp = "search"
    /\ lastSearch.found
    /\ DOMAIN lastSearch.norm.d = {"category"}
    /\ db.medicines[Len(db.medicines)].brand = "N/A"
    /\ db.medicines[Len(db.medicines)].name = lastSearch.name

\* C8 as stated: when the normalizer recovers nothing from a run that has a
\* step with a successful done outcome, the assistant message appended is
\* that step's text verbatim; the generic message is for runs without one.
C8_NarrativeFallback ==
    (/\ lastOp = "search"
     /\ lastSearch.outcome = "returned"
     /\ ~Truthy(lastSearch.norm)) =>
        IF lastSearch.hasNarrative
        THEN messages[Len(messages)] =
                Msg("assistant", "narrative", "", lastSearch.narrative)
        ELSE messages[Len(messages)].kind = "sorry"

\* C9: initialize_database leaves the rows of both tables as they were,
\* and both tables exist after it.
C9_Idempotent ==
    [][lastOp' = "initialize_database" =>
          /\ db'.medicines = db.medicines
          /\ db'.insights = db.insights
          /\ db'.medTable /\ db'.insTable]_vars
\* initialize_database was called on a store with rows in both tables
C9_Witness ==
    /\ lastOp = "initialize_database"
    /\ db.medicines # <<>>
    /\ db.insights # <<>>

\* C10: a search whose agent run raises makes one attempt, appends after the
\* user's message exactly one assistant message that reports the error
\* text, and inserts no row.
C10_AgentRaises ==
    [][(lastOp' = "search" /\ clicks' = clicks + 1 /\ lastSearch'.outcome = "raise") =>
          /\ agentRuns' = agentRuns + 1
          /\ Len(messages') = Len(messages) + 2
          /\ SubSeq(messages', 1, Len(messages)) = messages
          /\ messages'[Len(messages') - 1].role = "user"
          /\ messages'[Len(messages')] =
                Msg("assistant", "error", lastSearch'.err, <<>>)
          /\ lastSearch'.err = "Browser closed"
          /\ db'.medicines = db.medicines]_vars
\* a second search in a row met a raising agent, on a store with a row
C10_Witness ==
    /\ lastOp = "search"
    /\ lastSearch.outcome = "raise"
    /\ agentRuns = 2
    /\ Len(messages) = 4
    /\ messages[4].kind = "error"
    /\ db.medicines # <<>>

\* C11: run_mcp_query returns the body of the response as it is when the
\* status is 200, an error object that holds the status and the body text
\* when it is not, the fixed advice to start the relay when the connection
\* is refused, and an error object for any other exception.
C11_ReturnShapes ==
    lastMcp.kind # "none" =>
        CASE ~lastMcp.relayUp ->
                lastMcp.result = Body("error", ConnectAdvice, <<>>)
          [] lastMcp.relayUp /\ lastMcp.lost ->
                /\ lastMcp.result.kind = "error"
                /\ lastMcp.result.s # ConnectAdvice
          [] lastMcp.relayUp /\ ~lastMcp.lost /\ lastMcp.status = 200 ->
                /\ lastMcp.result = lastMcp.body
                /\ lastMcp.result.kind \in {"results", "message"}
          [] OTHER ->
                /\ lastMcp.status = 400
                /\ lastMcp.result =
                      Body("error", "Error 400: {\"detail\":\"SQL error\"}", <<>>)
\* the relay answered a statement with status 400
C11_Witness ==
    /\ lastMcp.prompt = SqlInsertLog
    /\ lastMcp.relayUp /\ ~lastMcp.lost
    /\ lastMcp.status = 400
    /\ lastMcp.result.kind = "error"

\* the line of a record none of whose fields holds a line break
ExpectedCsvLine(m) ==
    m.name \o "," \o m.brand \o "," \o (IF m.price = 5 THEN "5.0" ELSE "0.0")
    \o "," \o m.dosage \o "," \o m.form \o ","
    \o (IF m.otc THEN "True" ELSE "False") \o "," \o m.description \o ","
    \o m.side_effects \o "," \o m.category \o "," \o m.date_added
ExpectedCsvHeader ==
    "name,brand,price,dosage,form,otc,description,side_effects,category,date_added"
\* the description of the record holds a line break
Broken(m) == m.description = "take one\ntake two"
\* the rows before row i whose description holds a line break
BrokenBefore(ms, i) == Cardinality({j \in 1..(i - 1) : Broken(ms[j])})
\* export_to_csv on an empty table returns None and leaves the file alone
C12_EmptyCase ==
    (db.medTable /\ db.medicines = <<>>) =>
        /\ ~ExportToCsv(db, csvFile).written
        /\ csvFile' = csvFile

ExpectedFact(row) ==
    "medicine('" \o row.name \o "', '" \o row.brand \o "', "
    \o (IF row.price = 5 THEN "5.0" ELSE "0.0") \o ", '" \o row.dosage
    \o "', '" \o row.form \o "', " \o (IF row.otc = 1 THEN "true" ELSE "false")
    \o ", '" \o row.description \o "', '" \o row.side_effects \o "', '"
    \o row.category \o "').\n"

\* C13: export_to_prolog writes, after the comment line, one fact per row
\* of the medicines table in scan order, with otc as true or false and
\* every text between single quotes as it is; the apostrophe of the brand
\* Tylenol's is not escaped.
C13_FactPerRow ==
    [][(lastOp' = "export_to_prolog" /\ db.medTable) =>
          /\ ~ExportToProlog(db, plFile).raised
          /\ Len(plFile') = Len(db.medicines) + 1
          /\ plFile'[1] = "% Prolog knowledge base for medicines\n"
          /\ \A i \in 1..Len(db.medicines) :
                /\ plFile'[i + 1] = ExpectedFact(db.medicines[i])
                /\ (/\ db.medicines[i].brand = "Tylenol's"
                    /\ db.medicines[i].otc = 1
                    /\ db.medicines[i].description = "pain relief") =>
                      plFile'[i + 1] =
                         "medicine('Aspirin', 'Tylenol's', 5.0, '500mg', 'tablet', "
                         \o "true, 'pain relief', 'nausea', 'NSAID').\n"]_vars
\* two rows were exported, the second with an apostrophe in its brand
C13_Witness ==
    /\ lastOp = "export_to_prolog"
    /\ Len(db.medicines) = 2
    /\ db.medicines[2].brand = "Tylenol's"
    /\ db.medicines[2].otc = 1
    /\ db.medicines[2].description = "pain relief"
    /\ Len(plFile) = 3

\* C14: never are two agent runs, or two store writes, in flight at once;
\* within a search the insert starts only when the agent run has returned,
\* and the reload only when the insert has committed.
C14_OneAtATime ==
    /\ agentsInFlight <= 1
    /\ writesInFlight <= 1
    /\ agentsInFlight + writesInFlight <= 1
    /\ spc = "insert" => (agentDone /\ agentsInFlight = 0)
    /\ spc = "reload" => (agentDone /\ committed /\ writesInFlight = 0)
\* the insert of a search is in flight while the user's next action waits
C14_Witness ==
    /\ spc = "insert"
    /\ writesInFlight = 1
    /\ pending # <<>>

\* what a step's text yields when its brace-delimited part is decoded
FromMatch(step, da) ==
    IF HasMatch(step.text) THEN JsonLoads(RegexSearch(step.text), da)
    ELSE [ok |-> FALSE, val |-> None]
\* what a step's text yields when it is decoded whole
FromText(step, da) == JsonLoads(step.text, da)

SearchRow == db.medicines[Len(db.medicines)]

\* C16: in the record a search creates, form, side_effects, date_added,
\* price and otc do not depend on the agent's output: the form and the
\* side effects are the fixed strings, the date is the current date, the
\* price is 0.0 and otc is false, whatever keys the agent's JSON carries.
C16_FixedFields ==
    (lastOp = "search" /\ lastSearch.found) =>
        /\ db.medicines # <<>>
        /\ SearchRow.form = "Various"
        /\ SearchRow.side_effects =
             "Please consult your healthcare provider for side effects information."
        /\ SearchRow.date_added \in Dates
        /\ SearchRow.price = 0
        /\ SearchRow.otc = 0
\* a search has created a record from an object that carries the keys
\* price, form, otc, side_effects and date_added
C16_Witness ==
    /\ lastOp = "search"
    /\ lastSearch.found
    /\ {"price", "form", "otc", "side_effects", "date_added"}
           \subseteq DOMAIN lastSearch.norm.d
    /\ lastSearch.norm.d["form"] # JStr("Various")
    /\ SearchRow.name = "Ibuprofen"

\* C17: every operation of the store has closed the connection it opened
\* by the time it returns or raises, so that no connection is ever left
\* open by an operation that has ended.
C17_ConnectionsClosed == ~connLeft

\* the search that has just ended got a non-empty mapping from the
\* normalizer
GotMapping(search) ==
    /\ search.outcome = "returned"
    /\ search.norm.ty = "dict"
    /\ Truthy(search.norm)

\* C18: a search inserts exactly one row when the agent run completes and
\* the normalizer yields a non-empty mapping, whatever the types of the
\* mapping's values, and no row otherwise; in the one-row case the
\* session's list of medicines is reloaded and holds the new record.
C18_RowPerMapping ==
    [][(lastOp' = "search" /\ clicks' = clicks + 1) =>
          IF GotMapping(lastSearch')
          THEN /\ Len(db'.medicines) = Len(db.medicines) + 1
               /\ \E i \in 1..Len(sessMedicines') :
                     sessMedicines'[i] = RowMedicine(db'.medicines[Len(db'.medicines)])
          ELSE Len(db'.medicines) = Len(db.medicines)]_vars

\* a history of user and assistant messages in turn, the user's first
Alternating(history) ==
    /\ Len(history) % 2 = 0
    /\ \A i \in 1..Len(history) :
          history[i].role = (IF i % 2 = 1 THEN "user" ELSE "assistant")
\* after is before with two messages more, the user's and one assistant's
TwoAppended(before, after) ==
    /\ Len(after) = Len(before) + 2
    /\ SubSeq(after, 1, Len(before)) = before
    /\ after[Len(after) - 1].role = "user"
    /\ after[Len(after)].role = "assistant"

\* C19: a search with a name appends exactly two messages to the chat
\* history, the user's and then one assistant message, whatever its
\* outcome, and a search without a name appends none; the same holds of a
\* relay query and the relay's history; either history alternates between
\* user and assistant, has an even length, and keeps the messages it has.
C19_TwoMessages ==
    [][/\ Alternating(messages')
       /\ Alternating(mcpMessages')
       /\ IF lastOp' = "search" /\ clicks' = clicks + 1 /\ lastSearch'.name # ""
          THEN TwoAppended(messages, messages')
          ELSE messages' = messages
       /\ IF lastOp' = "mcp" /\ clicks' = clicks + 1 /\ lastMcp'.prompt # <<>>
          THEN TwoAppended(mcpMessages, mcpMessages')
          ELSE mcpMessages' = mcpMessages]_vars
\* a search that ended in an error and a relay query that was refused have
\* each left two messages
C19_Witness ==
    /\ lastOp = "mcp"
    /\ Len(messages) = 2
    /\ messages[2].kind = "error"
    /\ Len(mcpMessages) = 2
    /\ mcpMessages[2].kind = "mcp_error"

====
